---- MODULE Spec2Model ----
(***************************************************************************)
(* sidb: the Database type of src/main.go (the generation with the shared  *)
(* connection and the sync.RWMutex, lines 355-759), modelled as a state    *)
(* machine.  Goroutines call the methods of one *Database; every method    *)
(* takes db.mutex, checks db.connection, runs its statement(s) on the      *)
(* "entries" table and releases the mutex when it returns.                 *)
(*                                                                         *)
(* The table is a set of rows.  The engine is SQLite as the schema of Init *)
(* configures it: "id" INTEGER PRIMARY KEY AUTOINCREMENT, UNIQUE("type",   *)
(* "key").  Engine I/O faults are not modelled; the one statement failure  *)
(* is the UNIQUE constraint violation of a plain INSERT.                   *)
(*                                                                         *)
(* A call is three steps of its goroutine: the lock acquisition (Lock /    *)
(* RLock), the connection check, and the statement together with the       *)
(* deferred unlock and the return.  The arguments of a call are drawn when *)
(* the statement uses them; `ret` holds what the call that returned in the *)
(* step just taken returned (its method, arguments, error and value) and   *)
(* is NoRet otherwise: the step after a return hands the values to the     *)
(* caller (Returned), which changes nothing else.                          *)
(***************************************************************************)
EXTENDS Integers, Sequences, FiniteSets, TLC

\* ---- bounds of the model ----
MaxId == 2
MaxTime == 1
MaxBatch == 2
MaxLimit == 1

Procs == {"g1", "g2"}
Types == {"t1", "t2"}
Keys == {"k1"}
Values == {"v1", "v2"}

Times == 0..MaxTime
Ids == 1..MaxId
Limits == 0..MaxLimit

\* the limit of BulkLoad(limit int), a negative one among them
LoadLimits == -1..MaxLimit

\* EntryInput{Type, Key, Value}
EntryInput == [type : Types, key : Keys, value : Values]

\* []EntryInput: the batches of at most MaxBatch entries
Batches == UNION {[1..n -> EntryInput] : n \in 0..MaxBatch}

\* DbEntry{Id, Timestamp, Type, Key, Value}
DbEntry == [id : Ids, timestamp : Times, type : Types, key : Keys, value : Values]

\* error values a method returns
ErrNil == "nil"
ErrNoDbConnection == "no database connection"
ErrConstraint == "UNIQUE constraint failed: entries.type, entries.key"
ErrRemove == "remove: no such file or directory"

ReadOps == {"Get", "GetByKey", "BulkLoad", "Count", "Query"}
WriteOps == {"Put", "Update", "Delete", "DeleteByKey", "BulkPutForget", "Close", "Drop"}
Ops == ReadOps \cup WriteOps

\* a goroutine in one of the reading methods
ReadCall == "read"

NoTx == [open |-> FALSE, rows |-> {}, seq |-> 0, batch |-> <<>>]
NoArg == [kind |-> "none"]
NoRet == [op |-> "none", arg |-> NoArg, err |-> "nil", val |-> <<>>, hit |-> 0]

VARIABLES
    connection,   \* db.connection: "open" or "nil"
    fileExists,   \* whether the file at db.Path exists
    rows,         \* the committed content of the entries table
    seq,          \* the AUTOINCREMENT counter of the table (sqlite_sequence)
    tx,           \* the transaction of a BulkPutForget in progress
    now,          \* time.Now().UnixMilli()
    writer,       \* db.mutex: the goroutine holding Lock, or "none"
    readers,      \* db.mutex: the goroutines holding RLock
    pc,           \* each goroutine's position in its call
    op,           \* each goroutine's current method
    ret           \* the call that returned in the last step, if any

vars == <<connection, fileExists, rows, seq, tx, now, writer, readers, pc, op, ret>>

\* ---- the engine: statements over the entries table ----

Min(a, b) == IF a < b THEN a ELSE b

\* a table without the UNIQUE constraint: nothing conflicts
ConflictsNoConstraint(r, e) == FALSE

\* a table whose constraint is UNIQUE("key"): the key alone conflicts
ConflictsKeyOnly(r, e) == r.key = e.key

\* a table whose constraint is UNIQUE("type", "key", "value"): an entry with
\* another value does not conflict
ConflictsValueToo(r, e) == r.type = e.type /\ r.key = e.key /\ r.value = e.value

\* UNIQUE("type", "key"): the rows an entry conflicts with
Conflicts(r, e) == r.type = e.type /\ r.key = e.key

\* the row an INSERT creates: the id comes from AUTOINCREMENT, the timestamp
\* is the caller's time.Now().UnixMilli()
NewRow(id, t, e) ==
    [id |-> id, timestamp |-> t, type |-> e.type, key |-> e.key, value |-> e.value]

\* INSERT OR IGNORE: a conflicting row is kept and the new one dropped
InsertOrIgnore(rs, s, t, e) ==
    IF \E r \in rs : r.type = e.type /\ r.key = e.key
      THEN rs
      ELSE rs \cup {[id |-> s + 1, timestamp |-> t, type |-> e.type, key |-> e.key,
                     value |-> e.value]}

\* INSERT OR REPLACE INTO entries(type, value, timestamp, key)
InsertOrReplace(rs, s, t, e) ==
    {r \in rs : ~Conflicts(r, e)} \cup {NewRow(s + 1, t, e)}

\* INSERT INTO entries(type, value, timestamp, key): fails on a conflict
InsertFails(rs, e) == \E r \in rs : Conflicts(r, e)

Insert(rs, s, t, e) == rs \cup {NewRow(s + 1, t, e)}

\* an UPDATE that also sets timestamp to the time of the call
UpdateRowsTouch(rs, e) ==
    {IF r.key = e.key /\ r.type = e.type
       THEN [r EXCEPT !.value = e.value, !.timestamp = now]
       ELSE r : r \in rs}

\* an UPDATE that inserts the entry when no row matches
UpdateRowsUpsert(rs, e) ==
    IF \E r \in rs : r.key = e.key /\ r.type = e.type
      THEN {IF r.key = e.key /\ r.type = e.type THEN [r EXCEPT !.value = e.value] ELSE r :
               r \in rs}
      ELSE rs \cup {[id |-> seq + 1, timestamp |-> now, type |-> e.type, key |-> e.key,
                     value |-> e.value]}

\* UPDATE entries SET value = ? WHERE key = ? AND type = ?
UpdateRows(rs, e) ==
    {IF r.key = e.key /\ r.type = e.type THEN [r EXCEPT !.value = e.value] ELSE r : r \in rs}

\* SELECT ... WHERE id = ?
SelectById(rs, id) == {r \in rs : r.id = id}

\* SELECT ... WHERE key = ?: the lookup without the type
SelectByKeyAnyType(rs, key, type) == {r \in rs : r.key = key}

\* SELECT ... WHERE key = ? AND type = ?
SelectByKey(rs, key, type) == {r \in rs : r.key = key /\ r.type = type}

\* DELETE FROM entries WHERE id = ?
DeleteById(rs, id) == {r \in rs : r.id # id}

\* DELETE FROM entries WHERE key = ?: the delete without the type
DeleteWhereKeyAnyType(rs, key, type) == {r \in rs : r.key # key}

\* DELETE FROM entries WHERE key = ? AND type = ?
DeleteWhereKey(rs, key, type) == {r \in rs : ~(r.key = key /\ r.type = type)}

\* an optional parameter (a nil or set pointer): the empty set or a singleton
Opt(S) == {{}} \cup {{x} : x \in S}

\* QueryParams{From, To, Type, Limit, Descending}
QueryParams ==
    [from : Opt(Times), to : Opt(Times), type : Opt(Types), limit : Opt(Limits),
     descending : BOOLEAN]

\* a filter whose upper bound is exclusive: timestamp < ?
MatchesToExclusive(r, q) ==
    /\ \A t \in q.type : r.type = t
    /\ \A f \in q.from : r.timestamp >= f
    /\ \A u \in q.to : r.timestamp < u

\* WHERE 1=1 [AND type = ?] [AND timestamp >= ?] [AND timestamp <= ?]
Matches(r, q) ==
    /\ \A t \in q.type : r.type = t
    /\ \A f \in q.from : r.timestamp >= f
    /\ \A u \in q.to : r.timestamp <= u

Filter(rs, q) == {r \in rs : Matches(r, q)}

\* an ORDER BY that leaves the direction out: timestamp ASC whatever is asked
OrderingsAscending(S, descending) ==
    {s \in [1..Cardinality(S) -> S] :
        /\ \A i, j \in 1..Cardinality(S) : i # j => s[i] # s[j]
        /\ \A i, j \in 1..Cardinality(S) : i < j => s[i].timestamp <= s[j].timestamp}

\* ORDER BY timestamp ASC | DESC: every order of the rows the engine may
\* produce (the order among equal timestamps is the engine's)
Orderings(S, descending) ==
    {s \in [1..Cardinality(S) -> S] :
        /\ \A i, j \in 1..Cardinality(S) : i # j => s[i] # s[j]
        /\ \A i, j \in 1..Cardinality(S) :
              i < j => IF descending THEN s[i].timestamp >= s[j].timestamp
                                     ELSE s[i].timestamp <= s[j].timestamp}

\* a LIMIT that lets one row more through
TakeOneMore(s, n) == IF n < 0 THEN s ELSE SubSeq(s, 1, Min(n + 1, Len(s)))

\* LIMIT ?: a negative limit is SQLite's "no upper bound"
Take(s, n) == IF n < 0 THEN s ELSE SubSeq(s, 1, Min(n, Len(s)))

ApplyLimit(s, limit) == IF limit = {} THEN s ELSE Take(s, CHOOSE n \in limit : TRUE)

\* ---- db.mutex (sync.RWMutex) ----

\* a Lock that does not wait for the readers
CanLockIgnoresReaders == writer = "none"

CanLock == writer = "none" /\ readers = {}

\* an RLock that does not wait for the writer
CanRLockAlways == TRUE

CanRLock == writer = "none"

\* a return path of a mutating method without the Unlock
WriterAfterUnlockKept(p) == writer

\* the mutex after p's deferred Unlock / RUnlock
WriterAfterUnlock(p) == IF writer = p THEN "none" ELSE writer

ReadersAfterUnlock(p) == readers \ {p}

\* ---- what a call returns ----

Result(o, arg, err, val, hit) ==
    [op |-> o, arg |-> arg, err |-> err, val |-> val, hit |-> hit]

\* the deferred unlock and the return of p's call
Return(p) ==
    /\ writer' = WriterAfterUnlock(p)
    /\ readers' = ReadersAfterUnlock(p)
    /\ pc' = [pc EXCEPT ![p] = "idle"]
    /\ op' = [op EXCEPT ![p] = "none"]

\* ---- the state after Init(namespace, name) ----

Init ==
    /\ connection = "open"
    /\ fileExists = TRUE
    /\ rows = {}
    /\ seq = 0
    /\ tx = NoTx
    /\ now = 0
    /\ writer = "none"
    /\ readers = {}
    /\ pc = [p \in Procs |-> "idle"]
    /\ op = [p \in Procs |-> "none"]
    /\ ret = NoRet

\* ---- steps every method shares ----

\* db.mutex.Lock() at the top of a mutating method.  An INSERT needs a free
\* id below the model's bound.
Lock(p) ==
    /\ ret = NoRet
    /\ pc[p] = "idle"
    /\ CanLock
    /\ \E o \in WriteOps :
          /\ (o \in {"Put", "BulkPutForget"} /\ connection = "open") => seq < MaxId
          /\ op' = [op EXCEPT ![p] = o]
    /\ writer' = p
    /\ pc' = [pc EXCEPT ![p] = "check"]
    /\ ret' = NoRet
    /\ UNCHANGED <<connection, fileExists, rows, seq, tx, now, readers>>

\* db.mutex.RLock() at the top of a reading method.  The reading methods
\* share their first lines; which of them the call is shows at its statement.
RLock(p) ==
    /\ ret = NoRet
    /\ pc[p] = "idle"
    /\ CanRLock
    /\ op' = [op EXCEPT ![p] = ReadCall]
    /\ readers' = readers \cup {p}
    /\ pc' = [pc EXCEPT ![p] = "check"]
    /\ ret' = NoRet
    /\ UNCHANGED <<connection, fileExists, rows, seq, tx, now, writer>>

\* a method without the connection check
ConnectionIsNilNever == FALSE

\* if db.connection == nil
ConnectionIsNil == connection = "nil"

\* a closed store that answers with a nil error
NoConnectionErrorNil == ErrNil

\* the error of a call on a closed store
NoConnectionError == ErrNoDbConnection

\* the arguments a mutating method is called with
ArgsOf(o) ==
    CASE o \in {"Put", "Update"} -> EntryInput
      [] o = "Delete" -> [id : Ids]
      [] o = "DeleteByKey" -> [key : Keys, type : Types]
      [] o = "BulkPutForget" -> [entries : Batches]
      [] OTHER -> {NoArg}

\* if db.connection == nil { return ..., ErrNoDbConnection }.  The arguments
\* of a mutating call are recorded; those of a read have nothing to address.
NotConnected(p) ==
    /\ ret = NoRet
    /\ pc[p] = "check"
    /\ op[p] \notin {"Close", "Drop"}
    /\ ConnectionIsNil
    /\ IF op[p] = ReadCall
         THEN \E o \in ReadOps : ret' = Result(o, NoArg, NoConnectionError, <<>>, 0)
         ELSE \E a \in ArgsOf(op[p]) : ret' = Result(op[p], a, NoConnectionError, <<>>, 0)
    /\ Return(p)
    /\ UNCHANGED <<connection, fileExists, rows, seq, tx, now>>

\* the connection check passes: the method goes on to its statement
Connected(p) ==
    /\ ret = NoRet
    /\ pc[p] = "check"
    /\ ~ConnectionIsNil
    /\ pc' = [pc EXCEPT ![p] = "exec"]
    /\ ret' = NoRet
    /\ UNCHANGED <<connection, fileExists, rows, seq, tx, now, writer, readers, op>>

\* ---- Close and Drop ----

\* a Close that answers on a closed store as the other methods do
CloseNoopNotConnected(p) ==
    /\ ret = NoRet
    /\ pc[p] = "check"
    /\ op[p] \in {"Close", "Drop"}
    /\ ConnectionIsNil
    /\ writer' = WriterAfterUnlock(p)
    /\ readers' = ReadersAfterUnlock(p)
    /\ IF op[p] = "Close"
         THEN /\ pc' = [pc EXCEPT ![p] = "idle"]
              /\ op' = [op EXCEPT ![p] = "none"]
              /\ ret' = Result(op[p], NoArg, ErrNoDbConnection, <<>>, 0)
         ELSE /\ pc' = [pc EXCEPT ![p] = "droplock"]
              /\ ret' = NoRet
              /\ UNCHANGED op
    /\ UNCHANGED <<connection, fileExists, rows, seq, tx, now>>

\* Close on a closed store: if db.connection == nil { return nil }.  Drop
\* ignores what its db.Close() returns and goes on to its own Lock.
CloseNoop(p) ==
    /\ ret = NoRet
    /\ pc[p] = "check"
    /\ op[p] \in {"Close", "Drop"}
    /\ ConnectionIsNil
    /\ writer' = WriterAfterUnlock(p)
    /\ readers' = ReadersAfterUnlock(p)
    /\ IF op[p] = "Close"
         THEN /\ pc' = [pc EXCEPT ![p] = "idle"]
              /\ op' = [op EXCEPT ![p] = "none"]
              /\ ret' = Result(op[p], NoArg, ErrNil, <<>>, 0)
         ELSE /\ pc' = [pc EXCEPT ![p] = "droplock"]
              /\ ret' = NoRet
              /\ UNCHANGED op
    /\ UNCHANGED <<connection, fileExists, rows, seq, tx, now>>

\* a Drop that removes the file without closing the handle first
CloseExecDropKeepsHandle(p) ==
    /\ ret = NoRet
    /\ pc[p] = "exec"
    /\ op[p] \in {"Close", "Drop"}
    /\ connection' = IF op[p] = "Close" THEN "nil" ELSE connection
    /\ writer' = WriterAfterUnlock(p)
    /\ readers' = ReadersAfterUnlock(p)
    /\ IF op[p] = "Close"
         THEN /\ pc' = [pc EXCEPT ![p] = "idle"]
              /\ op' = [op EXCEPT ![p] = "none"]
              /\ ret' = Result(op[p], NoArg, ErrNil, <<>>, 1)
         ELSE /\ pc' = [pc EXCEPT ![p] = "droplock"]
              /\ ret' = NoRet
              /\ UNCHANGED op
    /\ UNCHANGED <<fileExists, rows, seq, tx, now>>

\* db.connection.Close(); db.connection = nil; return nil
CloseExec(p) ==
    /\ ret = NoRet
    /\ pc[p] = "exec"
    /\ op[p] \in {"Close", "Drop"}
    /\ connection' = "nil"
    /\ writer' = WriterAfterUnlock(p)
    /\ readers' = ReadersAfterUnlock(p)
    /\ IF op[p] = "Close"
         THEN /\ pc' = [pc EXCEPT ![p] = "idle"]
              /\ op' = [op EXCEPT ![p] = "none"]
              /\ ret' = Result(op[p], NoArg, ErrNil, <<>>, 1)
         ELSE /\ pc' = [pc EXCEPT ![p] = "droplock"]
              /\ ret' = NoRet
              /\ UNCHANGED op
    /\ UNCHANGED <<fileExists, rows, seq, tx, now>>

\* Drop, after db.Close() has returned: db.mutex.Lock()
DropLock(p) ==
    /\ ret = NoRet
    /\ pc[p] = "droplock"
    /\ CanLock
    /\ writer' = p
    /\ pc' = [pc EXCEPT ![p] = "remove"]
    /\ ret' = NoRet
    /\ UNCHANGED <<connection, fileExists, rows, seq, tx, now, readers, op>>

\* os.Remove(db.Path): the storage goes with the file
DropRemove(p) ==
    /\ ret = NoRet
    /\ pc[p] = "remove"
    /\ IF fileExists
         THEN /\ fileExists' = FALSE
              /\ rows' = {}
              /\ seq' = 0
              /\ ret' = Result(op[p], NoArg, ErrNil, <<>>, 1)
         ELSE /\ ret' = Result(op[p], NoArg, ErrRemove, <<>>, 0)
              /\ UNCHANGED <<fileExists, rows, seq>>
    /\ Return(p)
    /\ UNCHANGED <<connection, tx, now>>

\* ---- the single-statement writes ----

\* a Put on a table whose id is INTEGER PRIMARY KEY without AUTOINCREMENT: the
\* new id is one more than the largest id in the table
PutWithoutAutoincrement(p) ==
    /\ ret = NoRet
    /\ pc[p] = "exec"
    /\ op[p] = "Put"
    /\ \E e \in EntryInput :
          LET kept == {r \in rows : ~(r.type = e.type /\ r.key = e.key)}
              id == IF kept = {} THEN 1
                    ELSE 1 + (CHOOSE m \in {r.id : r \in kept} : \A r \in kept : r.id <= m)
          IN  /\ rows' = kept \cup {[id |-> id, timestamp |-> now, type |-> e.type,
                                     key |-> e.key, value |-> e.value]}
              /\ seq' = id
              /\ ret' = Result(op[p], e, ErrNil, <<id>>, Cardinality(rows) - Cardinality(kept))
    /\ Return(p)
    /\ UNCHANGED <<connection, fileExists, tx, now>>

\* a Put that returns result.RowsAffected() for the id
PutReturnsRowsAffected(p) ==
    /\ ret = NoRet
    /\ pc[p] = "exec"
    /\ op[p] = "Put"
    /\ \E e \in EntryInput :
          /\ rows' = {r \in rows : ~(r.type = e.type /\ r.key = e.key)}
                        \cup {[id |-> seq + 1, timestamp |-> now, type |-> e.type,
                               key |-> e.key, value |-> e.value]}
          /\ seq' = seq + 1
          /\ ret' = Result(op[p], e, ErrNil, <<1>>,
                            Cardinality({r \in rows : r.type = e.type /\ r.key = e.key}))
    /\ Return(p)
    /\ UNCHANGED <<connection, fileExists, tx, now>>

\* Put: INSERT OR REPLACE ...; return result.LastInsertId()
Put(p) ==
    /\ ret = NoRet
    /\ pc[p] = "exec"
    /\ op[p] = "Put"
    /\ \E e \in EntryInput :
          /\ rows' = InsertOrReplace(rows, seq, now, e)
          /\ seq' = seq + 1
          /\ ret' = Result(op[p], e, ErrNil, <<seq + 1>>,
                            Cardinality({r \in rows : Conflicts(r, e)}))
    /\ Return(p)
    /\ UNCHANGED <<connection, fileExists, tx, now>>

\* Update: UPDATE entries SET value = ? WHERE key = ? AND type = ?; return err
Update(p) ==
    /\ ret = NoRet
    /\ pc[p] = "exec"
    /\ op[p] = "Update"
    /\ \E e \in EntryInput :
          /\ rows' = UpdateRows(rows, e)
          /\ ret' = Result(op[p], e, ErrNil, <<>>,
                            Cardinality(SelectByKey(rows, e.key, e.type)))
    /\ Return(p)
    /\ UNCHANGED <<connection, fileExists, seq, tx, now>>

\* Delete: DELETE FROM entries WHERE id = ?
Delete(p) ==
    /\ ret = NoRet
    /\ pc[p] = "exec"
    /\ op[p] = "Delete"
    /\ \E id \in Ids :
          /\ rows' = DeleteById(rows, id)
          /\ ret' = Result(op[p], [id |-> id], ErrNil, <<>>,
                            Cardinality(SelectById(rows, id)))
    /\ Return(p)
    /\ UNCHANGED <<connection, fileExists, seq, tx, now>>

\* DeleteByKey: DELETE FROM entries WHERE key = ? AND type = ?
DeleteByKey(p) ==
    /\ ret = NoRet
    /\ pc[p] = "exec"
    /\ op[p] = "DeleteByKey"
    /\ \E k \in Keys, t \in Types :
          /\ rows' = DeleteWhereKey(rows, k, t)
          /\ ret' = Result(op[p], [key |-> k, type |-> t], ErrNil, <<>>,
                            Cardinality(SelectByKey(rows, k, t)))
    /\ Return(p)
    /\ UNCHANGED <<connection, fileExists, seq, tx, now>>

\* ---- BulkPutForget: one transaction ----

\* a rollback that leaves the transaction's writes in the table
RowsAfterRollbackKeeps(committed, t) == t.rows

\* tx.Rollback(): the table is what it was when the transaction began
RowsAfterRollback(committed, t) == committed

SeqAfterRollback(committed, t) == committed

\* tx.Commit(): the table is the transaction's
RowsAfterCommit(committed, t) == t.rows

SeqAfterCommit(committed, t) == t.seq

\* tx, err := db.connection.Begin(); stmt, err := tx.Prepare("INSERT INTO ...")
BulkBegin(p) ==
    /\ ret = NoRet
    /\ pc[p] = "exec"
    /\ op[p] = "BulkPutForget"
    /\ tx' = [open |-> TRUE, rows |-> rows, seq |-> seq, batch |-> <<>>]
    /\ pc' = [pc EXCEPT ![p] = "loop"]
    /\ ret' = NoRet
    /\ UNCHANGED <<connection, fileExists, rows, seq, now, writer, readers, op>>

\* one iteration of the loop over entries: stmt.Exec(...) succeeds
BulkExec(p) ==
    /\ ret = NoRet
    /\ pc[p] = "loop"
    /\ Len(tx.batch) < MaxBatch
    /\ tx.seq < MaxId
    /\ \E e \in EntryInput :
          /\ ~InsertFails(tx.rows, e)
          /\ tx' = [tx EXCEPT !.rows = Insert(tx.rows, tx.seq, now, e),
                              !.seq = tx.seq + 1,
                              !.batch = Append(tx.batch, e)]
    /\ ret' = NoRet
    /\ UNCHANGED <<connection, fileExists, rows, seq, now, writer, readers, pc, op>>

\* one iteration of the loop over entries: stmt.Exec(...) fails;
\* tx.Rollback(); return err
BulkExecFails(p) ==
    /\ ret = NoRet
    /\ pc[p] = "loop"
    /\ Len(tx.batch) < MaxBatch
    /\ \E e \in EntryInput :
          /\ InsertFails(tx.rows, e)
          /\ ret' = Result(op[p], [entries |-> Append(tx.batch, e)], ErrConstraint, <<>>,
                            Len(tx.batch))
    /\ rows' = RowsAfterRollback(rows, tx)
    /\ seq' = SeqAfterRollback(seq, tx)
    /\ tx' = NoTx
    /\ Return(p)
    /\ UNCHANGED <<connection, fileExists, now>>

\* the loop is over: err = tx.Commit(); return nil
BulkCommit(p) ==
    /\ ret = NoRet
    /\ pc[p] = "loop"
    /\ ret' = Result(op[p], [entries |-> tx.batch], ErrNil, <<>>, Len(tx.batch))
    /\ rows' = RowsAfterCommit(rows, tx)
    /\ seq' = SeqAfterCommit(seq, tx)
    /\ tx' = NoTx
    /\ Return(p)
    /\ UNCHANGED <<connection, fileExists, now>>

\* ---- the reads ----

\* row.Scan of a QueryRow: the first row, or sql.ErrNoRows -> (nil, nil)
Scan(S) == IF S = {} THEN {<<>>} ELSE {<<r>> : r \in S}

\* Get: SELECT ... WHERE id = ?
Get(p) ==
    /\ ret = NoRet
    /\ pc[p] = "exec"
    /\ op[p] = ReadCall
    /\ \E id \in Ids : \E v \in Scan(SelectById(rows, id)) :
          ret' = Result("Get", [id |-> id], ErrNil, v, Len(v))
    /\ Return(p)
    /\ UNCHANGED <<connection, fileExists, rows, seq, tx, now>>

\* GetByKey: SELECT ... WHERE key = ? AND type = ?
GetByKey(p) ==
    /\ ret = NoRet
    /\ pc[p] = "exec"
    /\ op[p] = ReadCall
    /\ \E k \in Keys, t \in Types : \E v \in Scan(SelectByKey(rows, k, t)) :
          ret' = Result("GetByKey", [key |-> k, type |-> t], ErrNil, v, Len(v))
    /\ Return(p)
    /\ UNCHANGED <<connection, fileExists, rows, seq, tx, now>>

\* a BulkLoad whose statement is ORDER BY timestamp ASC
BulkLoadAscending(p) ==
    /\ ret = NoRet
    /\ pc[p] = "exec"
    /\ op[p] = ReadCall
    /\ \E n \in LoadLimits : \E s \in Orderings(rows, FALSE) :
          ret' = Result("BulkLoad", [limit |-> n], ErrNil, Take(s, n), Len(Take(s, n)))
    /\ Return(p)
    /\ UNCHANGED <<connection, fileExists, rows, seq, tx, now>>

\* BulkLoad: SELECT ... ORDER BY timestamp DESC LIMIT ?
BulkLoad(p) ==
    /\ ret = NoRet
    /\ pc[p] = "exec"
    /\ op[p] = ReadCall
    /\ \E n \in LoadLimits : \E s \in Orderings(rows, TRUE) :
          ret' = Result("BulkLoad", [limit |-> n], ErrNil, Take(s, n), Len(Take(s, n)))
    /\ Return(p)
    /\ UNCHANGED <<connection, fileExists, rows, seq, tx, now>>

\* a Count that answers with the largest id assigned: SELECT MAX(id)
CountByMaxId(p) ==
    /\ ret = NoRet
    /\ pc[p] = "exec"
    /\ op[p] = ReadCall
    /\ ret' = Result("Count", NoArg, ErrNil, <<seq>>, 1)
    /\ Return(p)
    /\ UNCHANGED <<connection, fileExists, rows, seq, tx, now>>

\* Count: SELECT COUNT(*) FROM entries
Count(p) ==
    /\ ret = NoRet
    /\ pc[p] = "exec"
    /\ op[p] = ReadCall
    /\ ret' = Result("Count", NoArg, ErrNil, <<Cardinality(rows)>>, 1)
    /\ Return(p)
    /\ UNCHANGED <<connection, fileExists, rows, seq, tx, now>>

\* Query: the statement built from the parameters that are set
Query(p) ==
    /\ ret = NoRet
    /\ pc[p] = "exec"
    /\ op[p] = ReadCall
    /\ \E q \in QueryParams : \E s \in Orderings(Filter(rows, q), q.descending) :
          ret' = Result("Query", q, ErrNil, ApplyLimit(s, q.limit), Len(ApplyLimit(s, q.limit)))
    /\ Return(p)
    /\ UNCHANGED <<connection, fileExists, rows, seq, tx, now>>

\* ---- the clock ----

Tick ==
    /\ ret = NoRet
    /\ now < MaxTime
    /\ now' = now + 1
    /\ ret' = NoRet
    /\ UNCHANGED <<connection, fileExists, rows, seq, tx, writer, readers, pc, op>>

\* the caller has the values its call returned; the next step of any goroutine
\* follows
Returned ==
    /\ ret # NoRet
    /\ ret' = NoRet
    /\ UNCHANGED <<connection, fileExists, rows, seq, tx, now, writer, readers, pc, op>>

Next ==
    \/ Tick
    \/ Returned
    \/ \E p \in Procs :
          \/ Lock(p)
          \/ RLock(p)
          \/ NotConnected(p)
          \/ Connected(p)
          \/ CloseNoop(p)
          \/ CloseExec(p)
          \/ DropLock(p)
          \/ DropRemove(p)
          \/ Put(p)
          \/ Update(p)
          \/ Delete(p)
          \/ DeleteByKey(p)
          \/ BulkBegin(p)
          \/ BulkExec(p)
          \/ BulkExecFails(p)
          \/ BulkCommit(p)
          \/ Get(p)
          \/ GetByKey(p)
          \/ BulkLoad(p)
          \/ Count(p)
          \/ Query(p)

Spec == Init /\ [][Next]_vars

TypeOK ==
    /\ connection \in {"open", "nil"}
    /\ fileExists \in BOOLEAN
    /\ rows \subseteq DbEntry
    /\ seq \in 0..MaxId
    /\ now \in Times
    /\ writer \in Procs \cup {"none"}
    /\ readers \subseteq Procs
    /\ \A p \in Procs : pc[p] \in {"idle", "check", "exec", "loop", "droplock", "remove"}

\* ---- callers that wait for db.mutex ----
\*
\* In Spec a goroutine that finds the mutex taken is a goroutine that has not
\* called yet.  SpecFair tells the two apart: a call begins (Call), then
\* waits in Lock / RLock until the mutex admits it (Acquire, RAcquire), and
\* goes on as in Spec.  The scheduler runs every goroutine that can run, and
\* sync.RWMutex admits every waiter in the end (a blocked Lock holds new
\* readers off, an Unlock admits the readers that wait): every goroutine that
\* can take a step again and again takes one.

\* a method is called: the goroutine is at db.mutex.Lock() / RLock().  An
\* INSERT needs a free id below the model's bound.
Call(p) ==
    /\ ret = NoRet
    /\ pc[p] = "idle"
    /\ \E o \in WriteOps \cup {ReadCall} :
          /\ (o \in {"Put", "BulkPutForget"} /\ connection = "open") => seq < MaxId
          /\ op' = [op EXCEPT ![p] = o]
    /\ pc' = [pc EXCEPT ![p] = "wait"]
    /\ ret' = NoRet
    /\ UNCHANGED <<connection, fileExists, rows, seq, tx, now, writer, readers>>

\* db.mutex.Lock() returns
Acquire(p) ==
    /\ ret = NoRet
    /\ pc[p] = "wait"
    /\ op[p] \in WriteOps
    /\ CanLock
    /\ writer' = p
    /\ pc' = [pc EXCEPT ![p] = "check"]
    /\ ret' = NoRet
    /\ UNCHANGED <<connection, fileExists, rows, seq, tx, now, readers, op>>

\* db.mutex.RLock() returns
RAcquire(p) ==
    /\ ret = NoRet
    /\ pc[p] = "wait"
    /\ op[p] = ReadCall
    /\ CanRLock
    /\ readers' = readers \cup {p}
    /\ pc' = [pc EXCEPT ![p] = "check"]
    /\ ret' = NoRet
    /\ UNCHANGED <<connection, fileExists, rows, seq, tx, now, writer, op>>

\* the steps of goroutine p from its wait for the mutex to its return
Run(p) ==
    \/ Acquire(p)
    \/ RAcquire(p)
    \/ NotConnected(p)
    \/ Connected(p)
    \/ CloseNoop(p)
    \/ CloseExec(p)
    \/ DropLock(p)
    \/ DropRemove(p)
    \/ Put(p)
    \/ Update(p)
    \/ Delete(p)
    \/ DeleteByKey(p)
    \/ BulkBegin(p)
    \/ BulkExec(p)
    \/ BulkExecFails(p)
    \/ BulkCommit(p)
    \/ Get(p)
    \/ GetByKey(p)
    \/ BulkLoad(p)
    \/ Count(p)
    \/ Query(p)

\* the calls SpecFair follows: the lock does not depend on what is written,
\* so one value is written, under either type; a Get and a Delete address
\* id 1; an Update, a DeleteByKey and a GetByKey address type "t1"; a Query
\* sets no parameter and a BulkLoad asks for MaxLimit entries
FairInputs ==
    /\ \A r \in rows \cup tx.rows : r.value = "v1"
    /\ ret.op \in {"Put", "Update"} => ret.arg.value = "v1"
    /\ ret.op = "BulkPutForget" =>
          \A i \in 1..Len(ret.arg.entries) : ret.arg.entries[i].value = "v1"
    /\ (ret.op \in {"Get", "Delete"} /\ ret.arg # NoArg) => ret.arg.id = 1
    /\ (ret.op = "BulkLoad" /\ ret.arg # NoArg) => ret.arg.limit = MaxLimit
    /\ (ret.op \in {"Update", "DeleteByKey", "GetByKey"} /\ ret.arg # NoArg) =>
          ret.arg.type = "t1"
    /\ (ret.op = "Query" /\ ret.arg # NoArg) =>
          /\ ret.arg.from = {} /\ ret.arg.to = {} /\ ret.arg.limit = {}
          /\ ret.arg.type = {}
          /\ ~ret.arg.descending

FairRun(p) == Run(p) /\ FairInputs'

FairNext ==
    \/ Returned
    \/ \E p \in Procs :
          \/ Call(p)
          \/ Acquire(p) /\ FairInputs'
          \/ RAcquire(p) /\ FairInputs'
          \/ NotConnected(p) /\ FairInputs'
          \/ Connected(p) /\ FairInputs'
          \/ CloseNoop(p) /\ FairInputs'
          \/ CloseExec(p) /\ FairInputs'
          \/ DropLock(p) /\ FairInputs'
          \/ DropRemove(p) /\ FairInputs'
          \/ Put(p) /\ FairInputs'
          \/ Update(p) /\ FairInputs'
          \/ Delete(p) /\ FairInputs'
          \/ DeleteByKey(p) /\ FairInputs'
          \/ BulkBegin(p) /\ FairInputs'
          \/ BulkExec(p) /\ FairInputs'
          \/ BulkExecFails(p) /\ FairInputs'
          \/ BulkCommit(p) /\ FairInputs'
          \/ Get(p) /\ FairInputs'
          \/ GetByKey(p) /\ FairInputs'
          \/ BulkLoad(p) /\ FairInputs'
          \/ Count(p) /\ FairInputs'
          \/ Query(p) /\ FairInputs'

SpecFair ==
    /\ Init
    /\ [][FairNext]_vars
    /\ WF_vars(Returned)
    /\ \A p \in Procs : SF_vars(FairRun(p))

\* ---- Query with a sort field and an offset ----
\*
\* The Query of the generation the tests call (QueryParams.SortField,
\* SortOrder, Offset; EntryInput.SortingIndex) is not in main.go.  Its filter,
\* its ORDER BY timestamp and its LIMIT are those of Query above; the sorting
\* index, the choice of the sort field and the offset are as the
\* specification of the store states them.  Query is a function of the table
\* and the parameters: SpecQuery draws a table and applies Query to it.

MaxOffset == 1

SortingIndexes == {1, 2, 3}
Offsets == 0..MaxOffset

SortByTimestamp == "timestamp"
SortBySortingIndex == "sortingIndex"

\* the (type, key) pairs the tables hold entries under: two keys of one type
\* and one key of the other
Stored == {<<"t1", "k1">>, <<"t1", "k2">>, <<"t2", "k1">>}

\* an entry: its identity, its timestamp and its sorting index
Entry ==
    [type : Types, key : {"k1", "k2"}, timestamp : Times, sortingIndex : SortingIndexes]

\* the tables: at most one entry under each (type, key)
Tables ==
    UNION {{{[type |-> tk[1], key |-> tk[2], timestamp |-> f[tk][1], sortingIndex |-> f[tk][2]] :
                tk \in D} : f \in [D -> Times \X SortingIndexes]} : D \in SUBSET Stored}

\* QueryParams{Type, Limit, Offset, SortField, SortOrder}, From and To nil
QueryParamsSorted ==
    [from : {{}}, to : {{}}, type : Opt(Types), limit : Opt(Limits), offset : Opt(Offsets),
     sortField : {SortByTimestamp, SortBySortingIndex}, descending : BOOLEAN]

\* ORDER BY sorting_index ASC | DESC
OrderingsBySortingIndex(S, descending) ==
    {s \in [1..Cardinality(S) -> S] :
        /\ \A i, j \in 1..Cardinality(S) : i # j => s[i] # s[j]
        /\ \A i, j \in 1..Cardinality(S) :
              i < j => IF descending THEN s[i].sortingIndex >= s[j].sortingIndex
                                     ELSE s[i].sortingIndex <= s[j].sortingIndex}

\* the ORDER BY of the sort field selected
OrderingsBy(S, q) ==
    IF q.sortField = SortBySortingIndex
      THEN OrderingsBySortingIndex(S, q.descending)
      ELSE Orderings(S, q.descending)

\* OFFSET ?
Skip(s, n) == SubSeq(s, n + 1, Len(s))

ApplyOffset(s, offset) == IF offset = {} THEN s ELSE Skip(s, CHOOSE n \in offset : TRUE)

\* the window of the ordered rows: the offset skips, then the limit bounds
Page(s, q) == ApplyLimit(ApplyOffset(s, q.offset), q.limit)

QueryInit ==
    /\ connection = "open"
    /\ fileExists = TRUE
    /\ rows \in Tables
    /\ seq = 0
    /\ tx = NoTx
    /\ now = 0
    /\ writer = "none"
    /\ readers = {}
    /\ pc = [p \in Procs |-> "idle"]
    /\ op = [p \in Procs |-> "none"]
    /\ ret = NoRet

\* Query(params) on the table
QuerySorted ==
    /\ ret = NoRet
    /\ \E q \in QueryParamsSorted : \E s \in OrderingsBy(Filter(rows, q), q) :
          ret' = Result("Query", q, ErrNil, Page(s, q), Len(Page(s, q)))
    /\ UNCHANGED <<connection, fileExists, rows, seq, tx, now, writer, readers, pc, op>>

QueryNext ==
    \/ QuerySorted
    \/ Returned

SpecQuery == QueryInit /\ [][QueryNext]_vars

\* ---- the Typed Store ----
\*
\* MakeStore(db, type, serialize, deserialize) and the methods of the store it
\* returns, Upsert and DeleteByGrouping of the Database and the Grouping of an
\* entry are in the tests only.  They are modelled as the specification of the
\* store states them, over the table, the UNIQUE("type", "key") constraint
\* and the statements of the Database above.  A call of the store is one call
\* of the Database under its lock: SpecStore takes each as one step.

Groupings == {"g", "other"}

\* the values of the store's type; "bad" is one the serializer fails on
Items == {"a", "b", "bad"}

ErrSerialize == "serialization failed"

\* the (type, key) pairs the stores write under: three keys of one type and
\* one key of the other
StoreKeys(type) == IF type = "t1" THEN {"k1", "k2", "k3"} ELSE {"k1"}

\* StoreEntryInput[T]{Key, Value, Grouping}
StoreEntryInput(type) == [key : StoreKeys(type), value : Items, grouping : Groupings]

\* []StoreEntryInput[T]: the batches of one or two entries
StoreBatches(type) == UNION {[1..n -> StoreEntryInput(type)] : n \in {1, 2}}

\* serialize(value) -> bytes, which may fail
Serialize(item) ==
    CASE item = "a" -> [err |-> ErrNil, bytes |-> "v1"]
      [] item = "b" -> [err |-> ErrNil, bytes |-> "v2"]
      [] OTHER -> [err |-> ErrSerialize, bytes |-> ""]

\* deserialize(bytes) -> value
Deserialize(bytes) ==
    CASE bytes = "v1" -> [err |-> ErrNil, item |-> "a"]
      [] bytes = "v2" -> [err |-> ErrNil, item |-> "b"]
      [] OTHER -> [err |-> "deserialization failed", item |-> ""]

\* the row an upsert leaves: EntryInput{Type, Key, Value, Grouping}, written
\* at time t
GroupedRow(t, type, in) ==
    [type |-> type, key |-> in.key, value |-> Serialize(in.value).bytes,
     grouping |-> in.grouping, timestamp |-> t]

\* db.Upsert(entry): the entry replaces the one it conflicts with
Upsert(rs, t, type, in) ==
    {r \in rs : ~Conflicts(r, GroupedRow(t, type, in))} \cup {GroupedRow(t, type, in)}

\* db.BulkUpsert(entries): the upserts in the order of the batch
RECURSIVE BulkUpsert(_, _, _, _)
BulkUpsert(rs, t, type, ins) ==
    IF ins = <<>> THEN rs
    ELSE BulkUpsert(Upsert(rs, t, type, Head(ins)), t, type, Tail(ins))

\* the error of the store's write of a batch: that of the first entry the
\* serializer fails on
SerializeError(ins) ==
    IF \E i \in 1..Len(ins) : Serialize(ins[i].value).err # ErrNil
      THEN ErrSerialize
      ELSE ErrNil

\* a write that leaves out the entries the serializer fails on and writes the
\* others
StoreWriteSkipsFailed(rs, t, type, ins) ==
    BulkUpsert(rs, t, type, SelectSeq(ins, LAMBDA in : Serialize(in.value).err = ErrNil))

\* store.Upsert / store.BulkUpsert: every entry is serialized before the
\* Database is called; a failure returns with nothing written
StoreWrite(rs, t, type, ins) ==
    IF SerializeError(ins) # ErrNil THEN rs ELSE BulkUpsert(rs, t, type, ins)

\* a delete by grouping that leaves the type out
DeleteWhereGroupingAnyType(rs, type, grouping) == {r \in rs : r.grouping # grouping}

\* DELETE FROM entries WHERE type = ? AND grouping = ?
DeleteWhereGrouping(rs, type, grouping) ==
    {r \in rs : ~(r.type = type /\ r.grouping = grouping)}

\* store.Get: the entry of the key under the store's type, deserialized
StoreScan(S) ==
    IF S = {} THEN {[err |-> ErrNil, val |-> <<>>]}
    ELSE {[err |-> Deserialize(r.value).err,
           val |-> IF Deserialize(r.value).err = ErrNil THEN <<Deserialize(r.value).item>>
                                                      ELSE <<>>] : r \in S}

\* QueryParams{Type: &type}, nothing else set
QueryOfType(type) ==
    [from |-> {}, to |-> {}, type |-> {type}, limit |-> {}, descending |-> FALSE]

StoreInit ==
    /\ connection = "open"
    /\ fileExists = TRUE
    /\ rows = {}
    /\ seq = 0
    /\ tx = NoTx
    /\ now = 0
    /\ writer = "none"
    /\ readers = {}
    /\ pc = [p \in Procs |-> "idle"]
    /\ op = [p \in Procs |-> "none"]
    /\ ret = NoRet

StoreFrame == UNCHANGED <<connection, fileExists, seq, tx, now, writer, readers, pc, op>>

\* store.Upsert(input)
StoreUpsert ==
    /\ ret = NoRet
    /\ \E type \in Types : \E in \in StoreEntryInput(type) :
          /\ rows' = StoreWrite(rows, now, type, <<in>>)
          /\ ret' = Result("Store.Upsert", [type |-> type, entries |-> <<in>>],
                            SerializeError(<<in>>), <<>>,
                            Cardinality(SelectByKey(rows, in.key, type)))
    /\ StoreFrame

\* store.BulkUpsert(inputs)
StoreBulkUpsert ==
    /\ ret = NoRet
    /\ \E type \in Types : \E ins \in StoreBatches(type) :
          /\ rows' = StoreWrite(rows, now, type, ins)
          /\ ret' = Result("Store.BulkUpsert", [type |-> type, entries |-> ins],
                            SerializeError(ins), <<>>, 0)
    /\ StoreFrame

\* store.Get(key)
StoreGet ==
    /\ ret = NoRet
    /\ \E type \in Types : \E key \in StoreKeys(type) :
       \E g \in StoreScan(SelectByKey(rows, key, type)) :
          ret' = Result("Store.Get", [type |-> type, key |-> key], g.err, g.val, Len(g.val))
    /\ UNCHANGED rows
    /\ StoreFrame

\* store.Delete(key)
StoreDelete ==
    /\ ret = NoRet
    /\ \E type \in Types : \E key \in StoreKeys(type) :
          /\ rows' = DeleteWhereKey(rows, key, type)
          /\ ret' = Result("Store.Delete", [type |-> type, key |-> key], ErrNil, <<>>,
                            Cardinality(SelectByKey(rows, key, type)))
    /\ StoreFrame

\* store.DeleteByGrouping(grouping)
StoreDeleteByGrouping ==
    /\ ret = NoRet
    /\ \E type \in Types : \E grouping \in Groupings :
          /\ rows' = DeleteWhereGrouping(rows, type, grouping)
          /\ ret' = Result("Store.DeleteByGrouping", [type |-> type, grouping |-> grouping],
                            ErrNil, <<>>, Cardinality(rows) - Cardinality(rows'))
    /\ StoreFrame

\* store.QueryEntries(StoreQueryParams{}): the entries of the store's type
StoreQueryEntries ==
    /\ ret = NoRet
    /\ \E type \in Types : \E s \in Orderings(Filter(rows, QueryOfType(type)), FALSE) :
          ret' = Result("Store.QueryEntries", [type |-> type], ErrNil, s, Len(s))
    /\ UNCHANGED rows
    /\ StoreFrame

StoreNext ==
    \/ StoreUpsert
    \/ StoreBulkUpsert
    \/ StoreGet
    \/ StoreDelete
    \/ StoreDeleteByGrouping
    \/ StoreQueryEntries
    \/ Returned

SpecStore == StoreInit /\ [][StoreNext]_vars

\* ---- what the claims speak of ----

\* the methods C4 lists
ListedOps ==
    {"Get", "GetByKey", "Put", "Update", "Delete", "DeleteByKey", "BulkPutForget",
     "BulkLoad", "Count", "Query"}

\* a goroutine holds db.mutex: it is between its Lock / RLock and its return
InCall(p) == pc[p] \in {"check", "exec", "loop", "remove"}

\* the entry e is live in rs with its value
Live(rs, e) == \E r \in rs : r.type = e.type /\ r.key = e.key /\ r.value = e.value

\* a call of o returned in this step
Returns(o) == ret'.op = o

\* C1: in every reachable state there is at most one live entry for each
\* (type, key), in the table and in the table a bulk write is working on.
C1_UniqueTypeKey ==
    /\ \A r1, r2 \in rows : (r1.type = r2.type /\ r1.key = r2.key) => r1 = r2
    /\ \A r1, r2 \in tx.rows : (r1.type = r2.type /\ r1.key = r2.key) => r1 = r2

\* a Put has just replaced the entry that was live under its (type, key)
C1_Witness ==
    /\ ret.op = "Put"
    /\ ret.err = ErrNil
    /\ ret.hit = 1

\* C2: a Put of e that succeeds leaves a get of e's (type, key) returning e's
\* value and the timestamp of this write; when an entry was live under that
\* (type, key) the number of entries is what it was.
C2_PutReplaces ==
    [][(Returns("Put") /\ ret'.err = ErrNil) =>
          LET e == ret'.arg IN
          /\ \A v \in Scan(SelectByKey(rows', e.key, e.type)) :
                /\ Len(v) = 1
                /\ v[1].value = e.value
                /\ v[1].timestamp = now
                /\ v[1].id = ret'.val[1]
          /\ SelectByKey(rows, e.key, e.type) # {} =>
                Cardinality(rows') = Cardinality(rows)]_vars

\* a Put has just replaced an entry written at an earlier time with another
\* value still to be told from it by its timestamp
C2_Witness ==
    /\ ret.op = "Put"
    /\ ret.err = ErrNil
    /\ ret.hit = 1
    /\ now > 0
    /\ \E r \in rows : r.id = ret.val[1] /\ r.timestamp = now /\ r.value = ret.arg.value

\* C3: a BulkPutForget that returns an error leaves the table and the id
\* counter as they were; one that returns nil leaves every entry of its batch
\* live.
C3_BulkAllOrNothing ==
    [][Returns("BulkPutForget") =>
          IF ret'.err = ErrNil
            THEN \A i \in 1..Len(ret'.arg.entries) : Live(rows', ret'.arg.entries[i])
            ELSE rows' = rows /\ seq' = seq]_vars

\* a batch has just failed on the constraint at its second write, after its
\* first write succeeded, on a table that holds an entry
C3_Witness ==
    /\ ret.op = "BulkPutForget"
    /\ ret.err = ErrConstraint
    /\ ret.hit >= 1
    /\ Len(ret.arg.entries) = ret.hit + 1
    /\ rows # {}

\* C4: once the connection is nil it stays nil, and every call of a listed
\* method that returns then returns ErrNoDbConnection and leaves the table
\* as it was.
C4_ClosedStaysClosed ==
    [][connection = "nil" =>
          /\ connection' = "nil"
          /\ ret'.op \in ListedOps => (ret'.err = ErrNoDbConnection /\ rows' = rows /\ seq' = seq)
          /\ \A p \in Procs : op[p] \in ListedOps \cup {ReadCall} => pc'[p] \notin {"exec", "loop"}]_vars

\* a Put on a closed store that holds an entry has just returned
\* ErrNoDbConnection
C4_Witness ==
    /\ connection = "nil"
    /\ ret.op = "Put"
    /\ ret.err = ErrNoDbConnection
    /\ rows # {}

C6_HandleLiveWhenUsed ==
    \A p \in Procs : pc[p] \in {"exec", "loop"} => connection = "open"

\* Close is about to release the handle while the other goroutine is between
\* two calls, after entries were written
C6_Witness ==
    \E p, q \in Procs :
        /\ p # q
        /\ pc[p] = "exec" /\ op[p] = "Close"
        /\ pc[q] = "idle"
        /\ rows # {}

\* C7: while a batch is open no read returns, and the table readers see
\* changes in one step only, the commit, after which every entry of the batch
\* is live; a failed batch leaves it as it was.
C7_NoPartialBatch ==
    [][tx.open =>
          /\ ret'.op \notin ReadOps
          /\ \A p \in Procs : op[p] = ReadCall => ~InCall(p)
          /\ \/ rows' = rows
             \/ /\ Returns("BulkPutForget")
                /\ ret'.err = ErrNil
                /\ \A i \in 1..Len(ret'.arg.entries) : Live(rows', ret'.arg.entries[i])]_vars

\* a batch is open with one write done and not visible yet
C7_Witness ==
    /\ tx.open
    /\ Len(tx.batch) = 1
    /\ tx.rows # rows
    /\ rows # {}

\* C8: a Put, Update or DeleteByKey addressed to (t, k) leaves every entry
\* with key k and another type as it was.
C8_OtherTypesUntouched ==
    [][(ret'.op \in {"Put", "Update", "DeleteByKey"} /\ ret'.err = ErrNil) =>
          \A r \in rows \cup rows' :
              (r.key = ret'.arg.key /\ r.type # ret'.arg.type) => (r \in rows /\ r \in rows')]_vars

\* a Put has just created an entry under a key that is live under another type
C8_Witness ==
    /\ ret.op = "Put"
    /\ ret.err = ErrNil
    /\ ret.hit = 0
    /\ \E r1, r2 \in rows : r1.key = r2.key /\ r1.type # r2.type

\* C9: an Update that succeeds keeps every entry, with its id, timestamp, type
\* and key, and changes the value of the entry it addresses only; no step
\* changes the type or the key of an entry.
C9_UpdateOnlyValue ==
    [][/\ (Returns("Update") /\ ret'.err = ErrNil) =>
            LET e == ret'.arg IN
            /\ Cardinality(rows') = Cardinality(rows)
            /\ \A r \in rows : \E r2 \in rows' :
                  /\ r2.id = r.id
                  /\ r2.timestamp = r.timestamp
                  /\ r2.type = r.type
                  /\ r2.key = r.key
                  /\ r2.value = IF r.type = e.type /\ r.key = e.key THEN e.value ELSE r.value
       /\ \A r \in rows : \A r2 \in rows' :
            r.id = r2.id => (r.type = r2.type /\ r.key = r2.key)]_vars

\* an Update has just changed the value of an entry written at an earlier
\* time, next to an entry of another type
C9_Witness ==
    /\ ret.op = "Update"
    /\ ret.err = ErrNil
    /\ ret.hit = 1
    /\ Cardinality(rows) = 2
    /\ \E r \in rows :
          /\ r.type = ret.arg.type /\ r.key = ret.arg.key
          /\ r.value = ret.arg.value
          /\ r.timestamp < now

\* C10, as claimed: an Update of a (type, key) with no live entry returns nil
\* and leaves the table as it was.
C10_UpdateMissingSucceeds ==
    [][(Returns("Update") /\ SelectByKey(rows, ret'.arg.key, ret'.arg.type) = {}) =>
          (ret'.err = ErrNil /\ rows' = rows /\ seq' = seq)]_vars

\* C10, amended: on an open store, an Update of a (type, key) with no live
\* entry returns nil and leaves the table as it was; on a closed store it
\* returns ErrNoDbConnection and leaves the table as it was.
C10_UpdateMissingNoEffect ==
    [][(Returns("Update") /\ SelectByKey(rows, ret'.arg.key, ret'.arg.type) = {}) =>
          /\ ret'.err = IF connection = "open" THEN ErrNil ELSE ErrNoDbConnection
          /\ rows' = rows
          /\ seq' = seq]_vars

\* on an open store that holds an entry, an Update of a (type, key) with no
\* live entry has just returned nil
C10_Witness ==
    /\ ret.op = "Update"
    /\ ret.err = ErrNil
    /\ ret.hit = 0
    /\ connection = "open"
    /\ rows # {}
    /\ SelectByKey(rows, ret.arg.key, ret.arg.type) = {}

\* C11: on an open store, a GetByKey of a (type, key) with no live entry
\* returns (nil, nil); a DeleteByKey that succeeds leaves no entry under its
\* (type, key), so the get that follows it is such a get.
C11_GetMissingNotFound ==
    [][/\ (/\ Returns("GetByKey")
           /\ connection = "open"
           /\ ~\E r \in rows : r.type = ret'.arg.type /\ r.key = ret'.arg.key) =>
              (ret'.err = ErrNil /\ ret'.val = <<>>)
       /\ (Returns("DeleteByKey") /\ ret'.err = ErrNil) =>
              ~\E r \in rows' : r.type = ret'.arg.type /\ r.key = ret'.arg.key]_vars

\* a GetByKey has just returned not-found on an open store that holds an entry
\* of another type, after an entry was deleted or replaced
C11_Witness ==
    /\ ret.op = "GetByKey"
    /\ ret.err = ErrNil
    /\ ret.val = <<>>
    /\ connection = "open"
    /\ rows # {}
    /\ seq > Cardinality(rows)

\* C12: on an open store, a DeleteByKey of a (type, key) and a Delete of an id
\* with no live entry return nil and leave the table as it was; after a delete
\* that succeeds, the same delete once more would remove nothing.
C12_DeleteIdempotent ==
    [][/\ (/\ Returns("DeleteByKey")
           /\ connection = "open"
           /\ ~\E r \in rows : r.type = ret'.arg.type /\ r.key = ret'.arg.key) =>
              (ret'.err = ErrNil /\ rows' = rows /\ seq' = seq)
       /\ (/\ Returns("Delete")
           /\ connection = "open"
           /\ ~\E r \in rows : r.id = ret'.arg.id) =>
              (ret'.err = ErrNil /\ rows' = rows /\ seq' = seq)
       /\ (Returns("DeleteByKey") /\ ret'.err = ErrNil) =>
              {r \in rows' : ~(r.type = ret'.arg.type /\ r.key = ret'.arg.key)} = rows'
       /\ (Returns("Delete") /\ ret'.err = ErrNil) =>
              {r \in rows' : r.id # ret'.arg.id} = rows']_vars

\* on an open store that holds an entry, a DeleteByKey of a (type, key) with
\* no live entry has just returned nil
C12_Witness ==
    /\ ret.op = "DeleteByKey"
    /\ ret.err = ErrNil
    /\ ret.hit = 0
    /\ connection = "open"
    /\ rows # {}

\* C13: a Close on a closed store returns nil and changes nothing.
C13_CloseIdempotent ==
    [][(Returns("Close") /\ connection = "nil") =>
          /\ ret'.err = ErrNil
          /\ connection' = "nil"
          /\ UNCHANGED <<fileExists, rows, seq, tx, now>>]_vars

\* a Close has just returned nil on a store the other goroutine had closed,
\* with entries in it
C13_Witness ==
    /\ ret.op = "Close"
    /\ ret.err = ErrNil
    /\ ret.hit = 0
    /\ connection = "nil"
    /\ rows # {}

C15_DropExclusive ==
    \A p, q \in Procs : (p # q /\ op[p] = "Drop" /\ pc[p] # "idle") => pc[q] = "idle"

\* C16: a Query without a limit that succeeds returns, each once, the entries
\* of the table that have the type asked for, a timestamp at or after from and
\* a timestamp at or before to, for each of the three that is set; with none
\* set it returns every entry.
C16_QueryFilters ==
    [][(Returns("Query") /\ ret'.err = ErrNil /\ ret'.arg.limit = {}) =>
          LET q == ret'.arg
              s == ret'.val
          IN  /\ {s[i] : i \in 1..Len(s)} =
                    {r \in rows : /\ q.type # {} => r.type \in q.type
                                  /\ q.from # {} => \E f \in q.from : r.timestamp >= f
                                  /\ q.to # {} => \E u \in q.to : r.timestamp <= u}
              /\ \A i, j \in 1..Len(s) : i # j => s[i] # s[j]
              /\ (q.type = {} /\ q.from = {} /\ q.to = {}) =>
                    Len(s) = Cardinality(rows)]_vars

\* a Query with the type and both bounds set has just returned one of two
\* entries, whose timestamp is both bounds
C16_Witness ==
    /\ ret.op = "Query"
    /\ ret.err = ErrNil
    /\ ret.arg.limit = {}
    /\ ret.arg.type # {} /\ ret.arg.from # {} /\ ret.arg.to # {}
    /\ Cardinality(rows) = 2
    /\ Len(ret.val) = 1
    /\ ret.arg.from = {ret.val[1].timestamp}
    /\ ret.arg.to = {ret.val[1].timestamp}
    /\ now > 0

\* C19: a Count that succeeds returns the number of (type, key) pairs that
\* have a live entry, and leaves the table as it was.
C19_CountIsLiveEntries ==
    [][(Returns("Count") /\ ret'.err = ErrNil) =>
          /\ ret'.val = <<Cardinality({<<r.type, r.key>> : r \in rows})>>
          /\ rows' = rows]_vars

\* a Count has just returned 1 on a store that has assigned two ids: an entry
\* was deleted or replaced
C19_Witness ==
    /\ ret.op = "Count"
    /\ ret.err = ErrNil
    /\ ret.val = <<1>>
    /\ seq = 2

\* C20, as claimed: a BulkPutForget on an open store returns nil, also when an
\* entry of the batch has the (type, key) of a live entry or of an earlier
\* entry of the batch, and then one entry is live under each (type, key) of
\* the batch, with the value of the last entry of the batch for it.
C20_BulkUpserts ==
    [][(Returns("BulkPutForget") /\ connection = "open") =>
          LET b == ret'.arg.entries IN
          /\ ret'.err = ErrNil
          /\ \A i \in 1..Len(b) :
                (\A j \in (i + 1)..Len(b) : ~(b[j].type = b[i].type /\ b[j].key = b[i].key)) =>
                    /\ Live(rows', b[i])
                    /\ Cardinality({r \in rows' : r.type = b[i].type /\ r.key = b[i].key}) = 1]_vars

\* the value of the sort field f of an entry
SortValue(e, f) == IF f = SortBySortingIndex THEN e.sortingIndex ELSE e.timestamp

\* the sequence s is in the order of the sort field f, in the direction asked
InOrder(s, f, descending) ==
    \A i, j \in 1..Len(s) :
        i < j => IF descending THEN SortValue(s[i], f) >= SortValue(s[j], f)
                               ELSE SortValue(s[i], f) <= SortValue(s[j], f)

\* the entries a query of q selects from the table rs
Selected(rs, q) == {r \in rs : q.type # {} => r.type \in q.type}

PageLen(n, q) ==
    LET skipped == IF q.offset = {} THEN 0 ELSE Min(CHOOSE o \in q.offset : TRUE, n)
        left == n - skipped
    IN  IF q.limit = {} THEN left ELSE Min(CHOOSE l \in q.limit : TRUE, left)

C21_SerializeFailureAborts ==
    [][(/\ ret'.op \in {"Store.Upsert", "Store.BulkUpsert"}
        /\ \E i \in 1..Len(ret'.arg.entries) :
              Serialize(ret'.arg.entries[i].value).err # ErrNil) =>
          (ret'.err # ErrNil /\ rows' = rows)]_vars

\* a store.BulkUpsert whose second entry the serializer fails on has just
\* returned the error, on a table that holds entries and none under the key
\* of its first entry
C21_Witness ==
    /\ ret.op = "Store.BulkUpsert"
    /\ ret.err = ErrSerialize
    /\ Len(ret.arg.entries) = 2
    /\ Serialize(ret.arg.entries[1].value).err = ErrNil
    /\ rows # {}
    /\ ~\E r \in rows : r.type = ret.arg.type /\ r.key = ret.arg.entries[1].key

\* C22: after a store.Upsert of a value under a key that succeeds, one entry
\* is live under the key and it deserializes to that value, whatever was live
\* under the key before; a store.Get returns nil without an error when no
\* entry is live under the key and otherwise the value that serializes to the
\* bytes of the live entry; after a store.Delete no entry is live under the
\* key.
C22_StoreRoundTrip ==
    [][/\ (ret'.op = "Store.Upsert" /\ ret'.err = ErrNil) =>
            LET in == ret'.arg.entries[1]
                live == {r \in rows' : r.type = ret'.arg.type /\ r.key = in.key}
            IN  /\ Cardinality(live) = 1
                /\ \A r \in live : Deserialize(r.value) = [err |-> ErrNil, item |-> in.value]
       /\ ret'.op = "Store.Get" =>
            LET live == {r \in rows : r.type = ret'.arg.type /\ r.key = ret'.arg.key}
            IN  /\ ret'.err = ErrNil
                /\ live = {} => ret'.val = <<>>
                /\ live # {} =>
                      /\ Len(ret'.val) = 1
                      /\ \E r \in live : Serialize(ret'.val[1]).bytes = r.value
       /\ ret'.op = "Store.Delete" =>
            /\ ret'.err = ErrNil
            /\ ~\E r \in rows' : r.type = ret'.arg.type /\ r.key = ret'.arg.key]_vars

\* a store.Upsert has just replaced the value of a key, next to other
\* entries: the one entry of the key carries the second value
C22_Witness ==
    /\ ret.op = "Store.Upsert"
    /\ ret.err = ErrNil
    /\ ret.hit = 1
    /\ Cardinality(rows) >= 2
    /\ \E r \in rows :
          /\ r.type = ret.arg.type /\ r.key = ret.arg.entries[1].key
          /\ Deserialize(r.value).item = ret.arg.entries[1].value

\* C23: a store.DeleteByGrouping of grouping g in the store of type t removes
\* the entries of type t and grouping g and keeps every other entry as it
\* was; a query of the store's entries returns, each once, the entries of its
\* type.
C23_DeleteByGroupingExact ==
    [][/\ ret'.op = "Store.DeleteByGrouping" =>
            /\ ret'.err = ErrNil
            /\ rows' \subseteq rows
            /\ \A r \in rows :
                  r \in rows' <=> ~(r.type = ret'.arg.type /\ r.grouping = ret'.arg.grouping)
       /\ ret'.op = "Store.QueryEntries" =>
            LET s == ret'.val IN
            /\ {s[i] : i \in 1..Len(s)} = {r \in rows : r.type = ret'.arg.type}
            /\ Len(s) = Cardinality({r \in rows : r.type = ret'.arg.type})]_vars

\* a store.DeleteByGrouping has just removed two entries of its type and
\* grouping, and left the one of its type in another grouping and the one of
\* another type in its grouping
C23_Witness ==
    /\ ret.op = "Store.DeleteByGrouping"
    /\ ret.err = ErrNil
    /\ ret.hit = 2
    /\ Cardinality(rows) = 2
    /\ \E r \in rows : r.type = ret.arg.type /\ r.grouping # ret.arg.grouping
    /\ \E r \in rows : r.type # ret.arg.type /\ r.grouping = ret.arg.grouping

\* C24: a Put that succeeds returns an id greater than the id counter, which
\* no step lowers while the file exists and which no id in the table exceeds:
\* greater than every id assigned before, also after deletes and when the Put
\* replaces an entry.  After a replacing Put no entry has the id of the entry
\* replaced and the entry of the new id is the one put; a Get of an id
\* returns nil when no entry has the id and the entry of that id otherwise.
C24_IdsNeverReused ==
    [][/\ fileExists' => seq' >= seq
       /\ \A r \in rows' : r.id <= seq'
       /\ (Returns("Put") /\ ret'.err = ErrNil) =>
            LET id == ret'.val[1]
                e == ret'.arg
            IN  /\ id > seq
                /\ \A r \in rows : id > r.id
                /\ \A r \in rows : (r.type = e.type /\ r.key = e.key) =>
                      ~\E r2 \in rows' : r2.id = r.id
                /\ \E r \in rows' :
                      r.id = id /\ r.type = e.type /\ r.key = e.key /\ r.value = e.value
                /\ Cardinality({r \in rows' : r.id = id}) = 1
       /\ (Returns("Get") /\ ret'.err = ErrNil) =>
            IF \E r \in rows : r.id = ret'.arg.id
              THEN Len(ret'.val) = 1 /\ ret'.val[1] \in rows /\ ret'.val[1].id = ret'.arg.id
              ELSE ret'.val = <<>>]_vars

\* a Put has just returned id 2 after the entry of id 1 was deleted: the table
\* holds the new entry only, and the Put replaced nothing
C24_Witness ==
    /\ ret.op = "Put"
    /\ ret.err = ErrNil
    /\ ret.hit = 0
    /\ ret.val = <<2>>
    /\ Cardinality(rows) = 1

\* C25: after a Put that returns an id without an error, a Get of the id and
\* a GetByKey of the key and type find one and the same entry, which has that
\* id and the type, key and value put; a Get and a GetByKey return the entry
\* they find.
C25_PutGetRoundTrip ==
    [][/\ (Returns("Put") /\ ret'.err = ErrNil) =>
            LET id == ret'.val[1]
                e == ret'.arg
                byId == {r \in rows' : r.id = id}
                byKey == {r \in rows' : r.key = e.key /\ r.type = e.type}
            IN  /\ byId = byKey
                /\ Cardinality(byId) = 1
                /\ \A r \in byId : r.type = e.type /\ r.key = e.key /\ r.value = e.value
       /\ (Returns("Get") /\ ret'.err = ErrNil /\ \E r \in rows : r.id = ret'.arg.id) =>
            ret'.val \in {<<r>> : r \in {x \in rows : x.id = ret'.arg.id}}
       /\ (/\ Returns("GetByKey")
           /\ ret'.err = ErrNil
           /\ \E r \in rows : r.key = ret'.arg.key /\ r.type = ret'.arg.type) =>
            ret'.val \in {<<r>> : r \in {x \in rows : x.key = ret'.arg.key
                                                      /\ x.type = ret'.arg.type}}]_vars

\* a Put has just returned id 2 for an entry next to the entry of id 1
C25_Witness ==
    /\ ret.op = "Put"
    /\ ret.err = ErrNil
    /\ ret.val = <<2>>
    /\ Cardinality(rows) = 2
    /\ connection = "open"

\* C26: a goroutine that is not in a call, or waits for the mutex, does not
\* hold it; every caller that waits for the mutex acquires it; every call
\* returns; a Drop that has closed acquires the mutex for its removal.
C26_LockReleasedAndLive ==
    /\ [](\A p \in Procs :
            pc[p] \in {"idle", "wait", "droplock"} => (writer # p /\ p \notin readers))
    /\ \A p \in Procs : (pc[p] = "wait") ~> (pc[p] = "check")
    /\ \A p \in Procs : (pc[p] = "droplock") ~> (pc[p] = "remove")
    /\ \A p \in Procs : (pc[p] # "idle") ~> (pc[p] = "idle")

\* a caller waits for the mutex while a Drop, which has closed a store that
\* holds entries, holds it again for its removal
C26_Witness ==
    \E p, q \in Procs :
        /\ p # q
        /\ pc[p] = "wait"
        /\ pc[q] = "remove"
        /\ writer = q
        /\ rows # {}

\* what C27 says of the entries s a BulkLoad returned from the table rs: they
\* are entries of rs, each once, in non-increasing order of timestamp, and no
\* entry left out has a greater timestamp than one returned
LatestFirst(s, rs) ==
    LET got == {s[i] : i \in 1..Len(s)} IN
    /\ got \subseteq rs
    /\ Cardinality(got) = Len(s)
    /\ \A i, j \in 1..Len(s) : i < j => s[i].timestamp >= s[j].timestamp
    /\ \A a \in rs \ got : \A b \in got : a.timestamp <= b.timestamp

\* C27, as claimed: a BulkLoad(limit) that succeeds returns min(limit, Count)
\* entries, latest first.
C27_BulkLoadMin ==
    [][(Returns("BulkLoad") /\ ret'.err = ErrNil) =>
          /\ Len(ret'.val) = (IF ret'.arg.limit < Cardinality(rows) THEN ret'.arg.limit
                                                                    ELSE Cardinality(rows))
          /\ LatestFirst(ret'.val, rows)]_vars

\* C27, amended: a BulkLoad(limit) that succeeds returns min(limit, Count)
\* entries when limit is not negative and every entry when it is, latest
\* first.
C27_BulkLoadLatest ==
    [][(Returns("BulkLoad") /\ ret'.err = ErrNil) =>
          /\ Len(ret'.val) = (IF ret'.arg.limit < 0 THEN Cardinality(rows)
                              ELSE IF ret'.arg.limit < Cardinality(rows) THEN ret'.arg.limit
                                                                         ELSE Cardinality(rows))
          /\ LatestFirst(ret'.val, rows)]_vars

\* a BulkLoad(1) has just returned the later of two entries of two types
C27_Witness ==
    /\ ret.op = "BulkLoad"
    /\ ret.err = ErrNil
    /\ ret.arg.limit = 1
    /\ Cardinality(rows) = 2
    /\ Len(ret.val) = 1
    /\ \E r \in rows : r.timestamp < ret.val[1].timestamp /\ r.type # ret.val[1].type

====
